---- MODULE Spec2Model ----
(***************************************************************************)
(* State-machine model of the inventory management program (main.py):     *)
(* the session, the Inventory Store, the Audit Log (transactions), the    *)
(* Sales Ledger (sales) and the three CSV record sets behind them.        *)
(*                                                                         *)
(* Each handler of main.py is one action.  A handler that ends by         *)
(* returning a message sets last.result to that message; a handler that   *)
(* is left by an exception raised by a CSV write sets last.result to      *)
(* PersistenceError (the code has no try/except around its writes).       *)
(*                                                                         *)
(* save_inventory and save_transactions are called by main.py but are not *)
(* defined in it; they are modelled after save_sales and section 4.1 of   *)
(* the specification (a save overwrites the record set of its kind).      *)
(***************************************************************************)
EXTENDS Integers, Sequences, FiniteSets, TLC

VARIABLES
    inventory,          \* main.py:18  dict: product name -> {Price, Category, Stock}
    transactions,       \* main.py:19  list of audit tuples
    sales,              \* main.py:20  list of sale tuples
    logged_in_user,     \* main.py:23
    user_role,          \* main.py:24
    inventory_csv,      \* main.py:25  contents of inventory.csv
    transactions_csv,   \* main.py:26  contents of transactions.csv
    sales_csv,          \* main.py:27  contents of sales.csv
    clock,              \* datetime.now(), in whole time units
    write_failures,     \* number of CSV writes the storage will yet fail
    hist,               \* history: per product, the stock set by the most recent
                        \* successful add/update (<< >> when there is none) and
                        \* the quantity sold by successful sales since
    last,               \* the most recent call: operation, result, returned data
    replay,             \* history: the add/update/delete calls made by an admin
                        \* session, in call order (kept only when replay.on)
    threads             \* per caller of sale_product run by a worker thread:
                        \* the line it is at and its local variables

vars == <<inventory, transactions, sales, logged_in_user, user_role,
          inventory_csv, transactions_csv, sales_csv, clock, write_failures, hist, last,
          replay, threads>>

-----------------------------------------------------------------------------
(* Bounds of the model *)

MaxTransactions == 2
MaxSales == 2
MaxClock == 1
MaxFaults == 1
MaxCalls == 3
MaxMonths == 3
MaxSalesPerMonth == 2
MaxPeriods == 2

(* Input domains *)

None == "None"
Names == {"Widget"}
Callers == {"a", "b"}           \* two requests served by worker threads
SkuNames == {"101"}             \* a product named by its article number
Categories == {"Tools", "Toys"}
PriceCategoryArgs == {<<1, "Tools">>, <<2, "Toys">>}
StockArgs == {-1, 2}
QuantityArgs == {-1, 0, 1, 3}
SearchArgs == {None, "TOY"}
ThresholdArgs == {0}
SortByArgs == {"Stock", "Weight"}
SortOrderArgs == {"asc", "desc"}
PeriodArgs == {1}
VoiceResults == {"Toys", "Could not understand audio", "Could not request results"}
Usernames == {"harsh", "user", "guest"}
Passwords == {"harsh", "user"}

-----------------------------------------------------------------------------
(* Credential tables, main.py:21-22 *)

admin_credentials == [u \in {"harsh"} |-> "harsh"]
user_credentials == [u \in {"user"} |-> "user"]

(* Messages returned by the handlers *)

PersistenceError == "unhandled exception from a CSV write"

(* Mutant: every logged-in principal passes the admin check *)
is_admin_any_session == logged_in_user # None
is_admin == user_role = "admin"
is_logged_in == logged_in_user # None

(* The inventory dict: a function whose domain is the set of keys.  The    *)
(* iteration order of the dict is not represented.                         *)
EmptyDict == [n \in {} |-> None]
(* The product dict with the values of Price and Stock exchanged *)
Product_swapped(price, category, stock) ==
    [Price |-> stock, Category |-> category, Stock |-> price]
Product(price, category, stock) ==
    [Price |-> price, Category |-> category, Stock |-> stock]
(* Put as dict.setdefault would do it: a present key keeps its record *)
Put_setdefault(inv, n, rec) ==
    [k \in (DOMAIN inv) \cup {n} |-> IF k \in DOMAIN inv THEN inv[k] ELSE rec]
Put(inv, n, rec) == [k \in (DOMAIN inv) \cup {n} |-> IF k = n THEN rec ELSE inv[k]]
Del(inv, n) == [k \in (DOMAIN inv) \ {n} |-> inv[k]]

(* The record of a call and its result *)
Call(op, result) == [op |-> op, result |-> result, data |-> << >>]
(* A call that returns a table: a DataFrame or its rows in order *)
Table(op, rows) == [op |-> op, result |-> "DataFrame", data |-> rows]

-----------------------------------------------------------------------------
(* State after load_data() on a first start: no CSV file exists, the three *)
(* collections are empty and an empty CSV of each kind is created.         *)

(* A worker thread that is not inside sale_product *)
Idle == [pc |-> "idle", product_name |-> None, quantity |-> 0, sale_id |-> 0]

load_data ==
    /\ inventory = EmptyDict
    /\ inventory_csv = {}
    /\ transactions = << >>
    /\ transactions_csv = << >>
    /\ sales = << >>
    /\ sales_csv = << >>

Start ==
    /\ load_data
    /\ logged_in_user = None
    /\ user_role = None
    /\ clock = 0
    /\ hist = [n \in Names \cup SkuNames |-> [set |-> << >>, sold |-> 0]]
    /\ last = Call("start", "loaded")
    /\ threads = [t \in Callers |-> Idle]

(* Storage that completes every write *)
Init == Start /\ write_failures = 0 /\ replay = [on |-> FALSE, calls |-> << >>]

(* Storage that fails up to MaxFaults writes *)
InitFaults == Start /\ write_failures = MaxFaults /\ replay = [on |-> FALSE, calls |-> << >>]

(* The same, with the calls of the admin session kept in replay.calls *)
InitReplay == Start /\ write_failures = MaxFaults /\ replay = [on |-> TRUE, calls |-> << >>]

data == <<inventory, transactions, sales,
          inventory_csv, transactions_csv, sales_csv, hist, replay, threads>>
session == <<logged_in_user, user_role>>

-----------------------------------------------------------------------------
(* Authentication, main.py:59-75 *)

(* login clearing the session when the credentials match nothing *)
login_clearing(username, password) ==
    /\ UNCHANGED <<data, clock, write_failures>>
    /\ IF username \in DOMAIN admin_credentials
          /\ admin_credentials[username] = password
       THEN /\ logged_in_user' = username
            /\ user_role' = "admin"
            /\ last' = Call("login", "Admin login successful")
       ELSE IF username \in DOMAIN user_credentials
               /\ user_credentials[username] = password
       THEN /\ logged_in_user' = username
            /\ user_role' = "user"
            /\ last' = Call("login", "User login successful")
       ELSE /\ logged_in_user' = None
            /\ user_role' = None
            /\ last' = Call("login", "Invalid credentials")

login(username, password) ==
    /\ UNCHANGED <<data, clock, write_failures>>
    /\ IF username \in DOMAIN admin_credentials
          /\ admin_credentials[username] = password
       THEN /\ logged_in_user' = username
            /\ user_role' = "admin"
            /\ last' = Call("login", "Admin login successful")
       ELSE IF username \in DOMAIN user_credentials
               /\ user_credentials[username] = password
       THEN /\ logged_in_user' = username
            /\ user_role' = "user"
            /\ last' = Call("login", "User login successful")
       ELSE /\ UNCHANGED session
            /\ last' = Call("login", "Invalid credentials")

logout ==
    /\ UNCHANGED <<data, clock, write_failures>>
    /\ logged_in_user' = None
    /\ user_role' = None
    /\ last' = Call("logout", "Logged out successfully")

-----------------------------------------------------------------------------
(* CSV writes.  A DataFrame row is a record keyed by column.               *)

save_inventory(inv) ==
    {[Product_Name |-> n, Price |-> inv[n].Price,
      Category |-> inv[n].Category, Stock |-> inv[n].Stock] : n \in DOMAIN inv}

save_transactions(tx) ==
    [i \in 1..Len(tx) |->
        [Transaction_ID |-> tx[i][1], Action |-> tx[i][2],
         Product_Name |-> tx[i][3], Quantity |-> tx[i][4],
         User |-> tx[i][5], Timestamp |-> tx[i][6]]]

save_sales(s) ==
    [i \in 1..Len(s) |->
        [Sale_ID |-> s[i][1], Product_Name |-> s[i][2],
         Quantity |-> s[i][3], Sale_Timestamp |-> s[i][4]]]

(* pd.read_csv, main.py:36, 43, 50.  The type of a column is inferred from *)
(* its cells: a column whose cells all read as integers comes back as      *)
(* integers, and in any other column an empty cell comes back as NaN.  A   *)
(* text cell is a string; the integer read from it is a different value,   *)
(* written here as the text followed by its dtype.                         *)
NaN == "NaN"
to_numeric == [text \in {"101"} |-> "101 (int64)"]

read_csv_column(cells) ==
    IF cells # {} /\ cells \subseteq DOMAIN to_numeric
    THEN [c \in cells |-> to_numeric[c]]
    ELSE [c \in cells |-> IF c = "" THEN NaN ELSE c]

(* inventory = {row['Product Name']: {...} for _, row in iterrows()} *)
load_inventory(csv) ==
    LET name == read_csv_column({row.Product_Name : row \in csv})
        category == read_csv_column({row.Category : row \in csv})
        RowOf(n) == CHOOSE row \in csv : name[row.Product_Name] = n
    IN [n \in {name[row.Product_Name] : row \in csv} |->
           [Price |-> RowOf(n).Price,
            Category |-> category[RowOf(n).Category],
            Stock |-> RowOf(n).Stock]]

(* transactions = [tuple(x) for x in transactions_df.values] *)
load_transactions(csv) ==
    LET action == read_csv_column({csv[i].Action : i \in 1..Len(csv)})
        name == read_csv_column({csv[i].Product_Name : i \in 1..Len(csv)})
        user == read_csv_column({csv[i].User : i \in 1..Len(csv)})
    IN [i \in 1..Len(csv) |->
           <<csv[i].Transaction_ID, action[csv[i].Action],
             name[csv[i].Product_Name], csv[i].Quantity,
             user[csv[i].User], csv[i].Timestamp>>]

(* sales = [tuple(x) for x in sales_df.values] *)
load_sales(csv) ==
    LET name == read_csv_column({csv[i].Product_Name : i \in 1..Len(csv)})
    IN [i \in 1..Len(csv) |->
           <<csv[i].Sale_ID, name[csv[i].Product_Name],
             csv[i].Quantity, csv[i].Sale_Timestamp>>]

(* A sales.csv left by an earlier run: for each month the number of sales  *)
(* of ten units made in it, the first and the last month having a sale     *)
MonthlyCounts ==
    UNION {{c \in [1..n -> 0..MaxSalesPerMonth] : c[1] > 0 /\ c[n] > 0} : n \in 1..MaxMonths}

RECURSIVE LedgerOf(_, _)
LedgerOf(counts, product_name) ==
    IF counts = << >> THEN << >>
    ELSE LET before == LedgerOf(SubSeq(counts, 1, Len(counts) - 1), product_name)
         IN before \o [i \in 1..counts[Len(counts)] |->
                          <<Len(before) + i, product_name, 10, Len(counts) - 1>>]

(* load_data() finding that sales.csv and no other file *)
StartWithSales ==
    /\ inventory = EmptyDict
    /\ inventory_csv = {}
    /\ transactions = << >>
    /\ transactions_csv = << >>
    /\ \E counts \in MonthlyCounts, n \in Names :
          sales_csv = [i \in 1..Len(LedgerOf(counts, n)) |->
                          [Sale_ID |-> LedgerOf(counts, n)[i][1],
                           Product_Name |-> LedgerOf(counts, n)[i][2],
                           Quantity |-> LedgerOf(counts, n)[i][3],
                           Sale_Timestamp |-> LedgerOf(counts, n)[i][4]]]
    /\ sales = load_sales(sales_csv)
    /\ logged_in_user = None
    /\ user_role = None
    /\ clock = MaxMonths
    /\ hist = [n \in Names \cup SkuNames |-> [set |-> << >>, sold |-> 0]]
    /\ last = Call("start", "loaded")
    /\ threads = [t \in Callers |-> Idle]

(* Start-up over a sales ledger of earlier months *)
InitPredict ==
    StartWithSales /\ write_failures = 0 /\ replay = [on |-> FALSE, calls |-> << >>]

-----------------------------------------------------------------------------
(* Transaction history, main.py:243-246: the list after the append.        *)

(* Mutant: ids counted from 0 *)
NextTransactionId_from_zero == Len(transactions)
NextTransactionId == Len(transactions) + 1

(* Mutant: the new entry is inserted at the head of the list *)
log_transaction_at_head(action, product_name, quantity) ==
    << <<Len(transactions) + 1, action, product_name, quantity,
         logged_in_user, clock>> >> \o transactions

(* The entry carries the role of the session in place of its principal *)
log_transaction_by_role(action, product_name, quantity) ==
    Append(transactions,
           <<Len(transactions) + 1, action, product_name, quantity,
             user_role, clock>>)

log_transaction(action, product_name, quantity) ==
    Append(transactions,
           <<NextTransactionId, action, product_name, quantity,
             logged_in_user, clock>>)

-----------------------------------------------------------------------------
(* CRUD operations, main.py:86-120.  Each write to a CSV file either       *)
(* completes or raises; a raise leaves the handler at that line.           *)

(* The membership test made against the categories of the stored products *)
InInventory_by_category(product_name) ==
    product_name \in {inventory[k].Category : k \in DOMAIN inventory}

(* product_name in inventory *)
InInventory(product_name) == product_name \in DOMAIN inventory

(* The call is noted when an admin session makes it *)
Record(call) ==
    IF replay.on /\ is_admin
    THEN /\ Len(replay.calls) < MaxCalls
         /\ replay' = [replay EXCEPT !.calls = Append(@, call)]
    ELSE UNCHANGED replay

WriteRaises == write_failures > 0 /\ write_failures' = write_failures - 1
NoWriteRaises == write_failures' = write_failures

add_product(product_name, price, category, stock) ==
    /\ UNCHANGED <<session, clock, sales, sales_csv, threads>>
    /\ Record(<<"add", product_name, price, category, stock>>)
    /\ IF ~is_logged_in
       THEN /\ UNCHANGED <<inventory, inventory_csv, transactions, transactions_csv, hist>>
            /\ last' = Call("add", "Please login to perform this action")
            /\ NoWriteRaises
       ELSE IF ~is_admin
       THEN /\ UNCHANGED <<inventory, inventory_csv, transactions, transactions_csv, hist>>
            /\ last' = Call("add", "Admin access required")
            /\ NoWriteRaises
       ELSE IF InInventory(product_name)
       THEN /\ UNCHANGED <<inventory, inventory_csv, transactions, transactions_csv, hist>>
            /\ last' = Call("add", "Product already exists")
            /\ NoWriteRaises
       ELSE /\ Len(transactions) < MaxTransactions
            /\ inventory' = Put(inventory, product_name, Product(price, category, stock))
            /\ \/ /\ UNCHANGED <<inventory_csv, transactions, transactions_csv, hist>>
                  /\ last' = Call("add", PersistenceError)
                  /\ WriteRaises
               \/ /\ inventory_csv' = save_inventory(inventory')
                  /\ transactions' = log_transaction("Add", product_name, stock)
                  /\ \/ /\ UNCHANGED <<transactions_csv, hist>>
                        /\ last' = Call("add", PersistenceError)
                        /\ WriteRaises
                     \/ /\ transactions_csv' = save_transactions(transactions')
                        /\ hist' = [hist EXCEPT ![product_name] = [set |-> <<stock>>, sold |-> 0]]
                        /\ last' = [Call("add", "added successfully") EXCEPT
                                       !.data = <<product_name, price, category, stock>>]
                        /\ NoWriteRaises

update_product(product_name, price, category, stock) ==
    /\ UNCHANGED <<session, clock, sales, sales_csv, threads>>
    /\ Record(<<"update", product_name, price, category, stock>>)
    /\ IF ~is_logged_in
       THEN /\ UNCHANGED <<inventory, inventory_csv, transactions, transactions_csv, hist>>
            /\ last' = Call("update", "Please login to perform this action")
            /\ NoWriteRaises
       ELSE IF ~is_admin
       THEN /\ UNCHANGED <<inventory, inventory_csv, transactions, transactions_csv, hist>>
            /\ last' = Call("update", "Admin access required")
            /\ NoWriteRaises
       ELSE IF ~InInventory(product_name)
       THEN /\ UNCHANGED <<inventory, inventory_csv, transactions, transactions_csv, hist>>
            /\ last' = Call("update", "Product not found")
            /\ NoWriteRaises
       ELSE /\ Len(transactions) < MaxTransactions
            /\ inventory' = Put(inventory, product_name, Product(price, category, stock))
            /\ \/ /\ UNCHANGED <<inventory_csv, transactions, transactions_csv, hist>>
                  /\ last' = Call("update", PersistenceError)
                  /\ WriteRaises
               \/ /\ inventory_csv' = save_inventory(inventory')
                  /\ transactions' = log_transaction("Update", product_name, stock)
                  /\ \/ /\ UNCHANGED <<transactions_csv, hist>>
                        /\ last' = Call("update", PersistenceError)
                        /\ WriteRaises
                     \/ /\ transactions_csv' = save_transactions(transactions')
                        /\ hist' = [hist EXCEPT ![product_name] = [set |-> <<stock>>, sold |-> 0]]
                        /\ last' = Call("update", "updated successfully")
                        /\ NoWriteRaises

(* delete_product removing the sales records of the product as well *)
delete_product_cascade(product_name) ==
    /\ UNCHANGED <<session, clock, hist, threads>>
    /\ LET Keep(s) == s[2] # product_name
       IN sales' = IF is_admin /\ InInventory(product_name)
                   THEN SelectSeq(sales, Keep) ELSE sales
    /\ sales_csv' = IF is_admin /\ InInventory(product_name)
                    THEN save_sales(sales') ELSE sales_csv
    /\ Record(<<"delete", product_name>>)
    /\ IF ~is_logged_in
       THEN /\ UNCHANGED <<inventory, inventory_csv, transactions, transactions_csv>>
            /\ last' = Call("delete", "Please login to perform this action")
            /\ NoWriteRaises
       ELSE IF ~is_admin
       THEN /\ UNCHANGED <<inventory, inventory_csv, transactions, transactions_csv>>
            /\ last' = Call("delete", "Admin access required")
            /\ NoWriteRaises
       ELSE IF ~InInventory(product_name)
       THEN /\ UNCHANGED <<inventory, inventory_csv, transactions, transactions_csv>>
            /\ last' = Call("delete", "Product not found")
            /\ NoWriteRaises
       ELSE /\ Len(transactions) < MaxTransactions
            /\ inventory' = Del(inventory, product_name)
            /\ \/ /\ UNCHANGED <<inventory_csv, transactions, transactions_csv>>
                  /\ last' = Call("delete", PersistenceError)
                  /\ WriteRaises
               \/ /\ inventory_csv' = save_inventory(inventory')
                  /\ transactions' = log_transaction("Delete", product_name, 0)
                  /\ \/ /\ UNCHANGED transactions_csv
                        /\ last' = Call("delete", PersistenceError)
                        /\ WriteRaises
                     \/ /\ transactions_csv' = save_transactions(transactions')
                        /\ last' = Call("delete", "deleted successfully")
                        /\ NoWriteRaises

delete_product(product_name) ==
    /\ UNCHANGED <<session, clock, sales, sales_csv, hist, threads>>
    /\ Record(<<"delete", product_name>>)
    /\ IF ~is_logged_in
       THEN /\ UNCHANGED <<inventory, inventory_csv, transactions, transactions_csv>>
            /\ last' = Call("delete", "Please login to perform this action")
            /\ NoWriteRaises
       ELSE IF ~is_admin
       THEN /\ UNCHANGED <<inventory, inventory_csv, transactions, transactions_csv>>
            /\ last' = Call("delete", "Admin access required")
            /\ NoWriteRaises
       ELSE IF ~InInventory(product_name)
       THEN /\ UNCHANGED <<inventory, inventory_csv, transactions, transactions_csv>>
            /\ last' = Call("delete", "Product not found")
            /\ NoWriteRaises
       ELSE /\ Len(transactions) < MaxTransactions
            /\ inventory' = Del(inventory, product_name)
            /\ \/ /\ UNCHANGED <<inventory_csv, transactions, transactions_csv>>
                  /\ last' = Call("delete", PersistenceError)
                  /\ WriteRaises
               \/ /\ inventory_csv' = save_inventory(inventory')
                  /\ transactions' = log_transaction("Delete", product_name, 0)
                  /\ \/ /\ UNCHANGED transactions_csv
                        /\ last' = Call("delete", PersistenceError)
                        /\ WriteRaises
                     \/ /\ transactions_csv' = save_transactions(transactions')
                        /\ last' = Call("delete", "deleted successfully")
                        /\ NoWriteRaises

-----------------------------------------------------------------------------
(* Sales management, main.py:257-275 *)

(* Mutant: the comparison reversed *)
InsufficientStock_reversed(product_name, quantity) ==
    inventory[product_name].Stock > quantity

InsufficientStock(product_name, quantity) ==
    inventory[product_name].Stock < quantity

(* Mutant: the quantity added instead of subtracted *)
StockAfterSale_added(product_name, quantity) ==
    inventory[product_name].Stock + quantity

StockAfterSale(product_name, quantity) ==
    inventory[product_name].Stock - quantity

(* Mutant: ids counted from 0 *)
NextSaleId_from_zero == Len(sales)
NextSaleId == Len(sales) + 1

sale_product(product_name, quantity) ==
    /\ UNCHANGED <<session, clock, transactions, transactions_csv, replay, threads>>
    /\ IF ~is_logged_in
       THEN /\ UNCHANGED <<inventory, inventory_csv, sales, sales_csv, hist>>
            /\ last' = Call("sell", "Please login to perform this action")
            /\ NoWriteRaises
       ELSE IF ~InInventory(product_name)
       THEN /\ UNCHANGED <<inventory, inventory_csv, sales, sales_csv, hist>>
            /\ last' = Call("sell", "Product not found")
            /\ NoWriteRaises
       ELSE IF InsufficientStock(product_name, quantity)
       THEN /\ UNCHANGED <<inventory, inventory_csv, sales, sales_csv, hist>>
            /\ last' = Call("sell", "Insufficient stock")
            /\ NoWriteRaises
       ELSE /\ Len(sales) < MaxSales
            /\ inventory' = [inventory EXCEPT ![product_name].Stock =
                                StockAfterSale(product_name, quantity)]
            /\ \/ /\ UNCHANGED <<inventory_csv, sales, sales_csv, hist>>
                  /\ last' = Call("sell", PersistenceError)
                  /\ WriteRaises
               \/ /\ inventory_csv' = save_inventory(inventory')
                  /\ sales' = Append(sales, <<NextSaleId, product_name, quantity, clock>>)
                  /\ \/ /\ UNCHANGED <<sales_csv, hist>>
                        /\ last' = Call("sell", PersistenceError)
                        /\ WriteRaises
                     \/ /\ sales_csv' = save_sales(sales')
                        /\ hist' = [hist EXCEPT ![product_name].sold = @ + quantity]
                        /\ last' = Call("sell", "Sold")
                        /\ NoWriteRaises

(* sale_product run by worker threads, main.py:257-271 line by line.  The  *)
(* handler takes no lock and iface.launch() sets no queue, so a request    *)
(* served by another thread may run between any two lines.                 *)
At(t, line) == threads[t].pc = line
Goto(t, line) == threads' = [threads EXCEPT ![t].pc = line]

(* lines 258-263: the checks; the call returns here when one of them fails *)
sale_product_check(t, product_name, quantity) ==
    /\ At(t, "idle")
    /\ UNCHANGED <<inventory, inventory_csv, sales, sales_csv, hist, session, clock,
                   transactions, transactions_csv, replay, write_failures>>
    /\ IF ~is_logged_in
       THEN last' = Call("sell", "Please login to perform this action") /\ UNCHANGED threads
       ELSE IF ~InInventory(product_name)
       THEN last' = Call("sell", "Product not found") /\ UNCHANGED threads
       ELSE IF InsufficientStock(product_name, quantity)
       THEN last' = Call("sell", "Insufficient stock") /\ UNCHANGED threads
       ELSE /\ threads' = [threads EXCEPT ![t] =
                              [pc |-> "decrement", product_name |-> product_name,
                               quantity |-> quantity, sale_id |-> 0]]
            /\ UNCHANGED last

(* line 265: inventory[product_name]['Stock'] -= quantity *)
sale_product_decrement(t) ==
    /\ At(t, "decrement")
    /\ inventory' = [inventory EXCEPT ![threads[t].product_name].Stock =
                        StockAfterSale(threads[t].product_name, threads[t].quantity)]
    /\ Goto(t, "save_inventory")
    /\ UNCHANGED <<inventory_csv, sales, sales_csv, hist, session, clock,
                   transactions, transactions_csv, replay, write_failures, last>>

(* line 266: save_inventory() *)
sale_product_save_inventory(t) ==
    /\ At(t, "save_inventory")
    /\ inventory_csv' = save_inventory(inventory)
    /\ Goto(t, "sale_id")
    /\ UNCHANGED <<inventory, sales, sales_csv, hist, session, clock,
                   transactions, transactions_csv, replay, write_failures, last>>

(* lines 267-268: sale_id = len(sales) + 1 *)
sale_product_sale_id(t) ==
    /\ At(t, "sale_id")
    /\ threads' = [threads EXCEPT ![t].sale_id = NextSaleId, ![t].pc = "append"]
    /\ UNCHANGED <<inventory, inventory_csv, sales, sales_csv, hist, session, clock,
                   transactions, transactions_csv, replay, write_failures, last>>

(* line 269: sales.append(...) *)
sale_product_append(t) ==
    /\ At(t, "append")
    /\ Len(sales) < MaxSales
    /\ sales' = Append(sales, <<threads[t].sale_id, threads[t].product_name,
                                threads[t].quantity, clock>>)
    /\ Goto(t, "save_sales")
    /\ UNCHANGED <<inventory, inventory_csv, sales_csv, hist, session, clock,
                   transactions, transactions_csv, replay, write_failures, last>>

(* lines 270-271: save_sales() and the return *)
sale_product_return(t) ==
    /\ At(t, "save_sales")
    /\ sales_csv' = save_sales(sales)
    /\ hist' = [hist EXCEPT ![threads[t].product_name].sold = @ + threads[t].quantity]
    /\ last' = Call("sell", "Sold")
    /\ threads' = [threads EXCEPT ![t] = Idle]
    /\ UNCHANGED <<inventory, inventory_csv, sales, session, clock,
                   transactions, transactions_csv, replay, write_failures>>

-----------------------------------------------------------------------------
(* Read-only operations, main.py:122-252 and 280-314.  A DataFrame is the  *)
(* set of its rows, except where a handler sorts it.                       *)

ValueError == "unhandled ValueError"

(* pd.DataFrame.from_dict(d, orient='index'), reset_index, then the four   *)
(* column names: an empty dict gives a frame of one column, and naming     *)
(* four raises ValueError (length mismatch).                               *)
DataFrameRaises(d) == DOMAIN d = {}
DataFrame(d) ==
    {[Product_Name |-> n, Price |-> d[n].Price,
      Category |-> d[n].Category, Stock |-> d[n].Stock] : n \in DOMAIN d}

view_inventory ==
    /\ UNCHANGED <<data, session, clock, write_failures>>
    /\ last' = IF ~is_logged_in
               THEN Call("view", "Please login to view the inventory")
               ELSE IF DataFrameRaises(inventory) THEN Call("view", ValueError)
               ELSE Table("view", DataFrame(inventory))

(* str.lower() and the substring test, on the strings of the model *)
lower(s) == CASE s = "Tools" -> "tools" [] s = "Toys" -> "toys"
              [] s = "TOY" -> "toy" [] OTHER -> s
IsSubstring(a, b) == a = b \/ <<a, b>> \in {<<"toy", "toys">>}

search_products_by_category(category) ==
    /\ UNCHANGED <<data, session, clock, write_failures>>
    /\ LET keys == IF category # None
                   THEN {k \in DOMAIN inventory :
                           IsSubstring(lower(category), lower(inventory[k].Category))}
                   ELSE DOMAIN inventory
           filtered_inventory == [k \in keys |-> inventory[k]]
       IN last' = IF ~is_logged_in
                  THEN Call("search", "Please login to search products")
                  ELSE IF DataFrameRaises(filtered_inventory)
                  THEN Call("search", ValueError)
                  ELSE Table("search", DataFrame(filtered_inventory))

voice_search ==
    /\ UNCHANGED <<data, session, clock, write_failures>>
    /\ IF ~is_logged_in
       THEN last' = Call("voice_search", "Please login to use voice search")
       ELSE \E heard \in VoiceResults : last' = Call("voice_search", heard)

low_stock_alerts(threshold) ==
    /\ UNCHANGED <<data, session, clock, write_failures>>
    /\ LET keys == {k \in DOMAIN inventory : inventory[k].Stock <= threshold}
           low_stock_items == [k \in keys |-> inventory[k]]
       IN last' = IF ~is_logged_in
                  THEN Call("lowStock", "Please login to view low stock alerts")
                  ELSE IF DataFrameRaises(low_stock_items)
                  THEN Call("lowStock", ValueError)
                  ELSE Table("lowStock", DataFrame(low_stock_items))

export_inventory ==
    /\ UNCHANGED <<data, session, clock, write_failures>>
    /\ last' = Call("export", IF ~is_logged_in
                              THEN "Please login to export the inventory"
                              ELSE "inventory.csv")

export_inventory_pdf ==
    /\ UNCHANGED <<data, session, clock, write_failures>>
    /\ last' = Call("export_pdf",
                    IF ~is_logged_in THEN "Please login to export the inventory"
                    ELSE IF DataFrameRaises(inventory) THEN ValueError
                    ELSE "inventory_report.pdf")

(* The rows of df in an order sort_values(by, ascending) can give; the     *)
(* order of rows with equal keys is left open.                             *)
IsSortedBy(rows, ascending) ==
    \A i, j \in 1..Len(rows) :
        i < j => IF ascending THEN rows[i].Stock <= rows[j].Stock
                              ELSE rows[i].Stock >= rows[j].Stock

Orderings(df) ==
    {rows \in [1..Cardinality(df) -> df] : \A r \in df : \E i \in DOMAIN rows : rows[i] = r}

sort_inventory(by, order) ==
    /\ UNCHANGED <<data, session, clock, write_failures>>
    /\ IF ~is_logged_in
       THEN last' = Call("sort", "Please login to sort the inventory")
       ELSE IF DataFrameRaises(inventory)
       THEN last' = Call("sort", ValueError)
       ELSE \E rows \in Orderings(DataFrame(inventory)) :
               /\ by = "Stock" => IsSortedBy(rows, order = "asc")
               /\ last' = Table("sort", rows)

view_transactions ==
    /\ UNCHANGED <<data, session, clock, write_failures>>
    /\ last' = IF ~is_logged_in
               THEN Call("viewTransactions", "Please login to view transactions")
               ELSE Table("viewTransactions", save_transactions(transactions))

(* predict_sales: the regression is fitted on the monthly totals of the    *)
(* product's sales; with no sale of the product there is no sample and     *)
(* LinearRegression.fit raises ValueError.                                 *)
(* Sales prediction, main.py:280-314.  A timestamp is counted in months,   *)
(* the granularity at which predict_sales reads it; numbers that sklearn   *)
(* holds as floats are exact fractions <<numerator, denominator>> with a   *)
(* positive denominator.                                                   *)
RECURSIVE SumSeq(_)
SumSeq(q) == IF q = << >> THEN 0 ELSE q[1] + SumSeq(Tail(q))

(* sales_df[sales_df['Product Name'] == product_name] *)
SalesOf(product_name) ==
    LET Named(s) == s[2] = product_name IN SelectSeq(sales, Named)

(* set_index('Sale Timestamp').resample('M').sum().fillna(0): one row per  *)
(* month from the first to the last month with a sale, holding the summed  *)
(* quantity; row i has Time = i - 1 after Time -= Time.min()               *)
resample(rows) ==
    LET months == {rows[i][4] : i \in 1..Len(rows)}
        first == CHOOSE m \in months : \A k \in months : m <= k
        final == CHOOSE m \in months : \A k \in months : m >= k
        InMonth(m) == LET Sold(s) == s[4] = m IN SelectSeq(rows, Sold)
    IN [t \in 1..(final - first + 1) |->
           LET r == InMonth(first + t - 1)
           IN SumSeq([i \in 1..Len(r) |-> r[i][3]])]

(* LinearRegression().fit(X, y) with X = Time = 0..n-1 *)
LinearRegression_fit(y) ==
    LET n == Len(y)
        Sx == SumSeq([i \in 1..n |-> i - 1])
        Sxx == SumSeq([i \in 1..n |-> (i - 1) * (i - 1)])
        Sy == SumSeq(y)
        Sxy == SumSeq([i \in 1..n |-> (i - 1) * y[i]])
        den == n * Sxx - Sx * Sx
        num == n * Sxy - Sx * Sy
    IN IF den = 0
       THEN [coef |-> <<0, 1>>, intercept |-> <<Sy, n>>]
       ELSE [coef |-> <<num, den>>, intercept |-> <<Sy * den - num * Sx, n * den>>]

(* model.predict at one time index *)
model_predict(model, t) ==
    <<model.intercept[1] * model.coef[2] + model.coef[1] * t * model.intercept[2],
      model.intercept[2] * model.coef[2]>>

(* np.arange started one index early *)
future_time_from_max(max_time, periods) ==
    [i \in 1..periods |-> max_time + i - 1]

(* np.arange(Time.max() + 1, Time.max() + periods + 1) *)
future_time(max_time, periods) ==
    [i \in 1..periods |-> max_time + i]

predict_sales(product_name, periods) ==
    /\ UNCHANGED <<data, session, clock, write_failures>>
    /\ IF ~is_logged_in
       THEN last' = Call("predict", "Please login to perform this action")
       ELSE IF SalesOf(product_name) = << >>
       THEN last' = Call("predict", ValueError)
       ELSE LET y == resample(SalesOf(product_name))
                model == LinearRegression_fit(y)
                times == future_time(Len(y) - 1, periods)
            IN last' = [op |-> "predict", result |-> "sales_prediction.png",
                        data |-> [y |-> y, periods |-> periods, model |-> model,
                                  future_time |-> times,
                                  future_sales |->
                                      [i \in 1..periods |-> model_predict(model, times[i])]]]

-----------------------------------------------------------------------------
(* The passing of time between calls *)

Tick ==
    /\ clock < MaxClock
    /\ clock' = clock + 1
    /\ UNCHANGED <<data, session, write_failures, last>>

Next ==
    \/ \E u \in Usernames, pw \in Passwords : login(u, pw)
    \/ logout
    \/ \E n \in Names, pc \in PriceCategoryArgs, s \in StockArgs :
          add_product(n, pc[1], pc[2], s)
    \/ \E n \in Names, pc \in PriceCategoryArgs, s \in StockArgs :
          update_product(n, pc[1], pc[2], s)
    \/ \E n \in Names : delete_product(n)
    \/ \E n \in Names, q \in QuantityArgs : sale_product(n, q)
    \/ view_inventory
    \/ \E c \in SearchArgs : search_products_by_category(c)
    \/ voice_search
    \/ \E t \in ThresholdArgs : low_stock_alerts(t)
    \/ export_inventory
    \/ export_inventory_pdf
    \/ \E by \in SortByArgs, order \in SortOrderArgs : sort_inventory(by, order)
    \/ view_transactions
    \/ \E n \in Names, k \in PeriodArgs : predict_sales(n, k)

NextTimed == Next \/ Tick

(* The calls of the catalogue only: login, add, update, delete *)
NextCrud ==
    \/ \E u \in Usernames, pw \in Passwords : login(u, pw)
    \/ \E n \in Names, pc \in PriceCategoryArgs, s \in StockArgs :
          add_product(n, pc[1], pc[2], s)
    \/ \E n \in Names, pc \in PriceCategoryArgs, s \in StockArgs :
          update_product(n, pc[1], pc[2], s)
    \/ \E n \in Names : delete_product(n)

Spec == Init /\ [][Next]_vars
SpecFaults == InitFaults /\ [][Next]_vars
SpecTimed == Init /\ [][NextTimed]_vars
SpecReplay == InitReplay /\ [][NextCrud]_vars

(* The calls of a shop whose products are named by article numbers *)
NextSku ==
    \/ \E u \in Usernames, pw \in Passwords : login(u, pw)
    \/ \E n \in SkuNames, pc \in PriceCategoryArgs, s \in StockArgs :
          add_product(n, pc[1], pc[2], s)
    \/ \E n \in SkuNames, pc \in PriceCategoryArgs, s \in StockArgs :
          update_product(n, pc[1], pc[2], s)
    \/ \E n \in SkuNames : delete_product(n)
    \/ \E n \in SkuNames, q \in QuantityArgs : sale_product(n, q)

SpecSku == Init /\ [][NextSku]_vars

(* Two sale requests in worker threads, after a login and an add with a    *)
(* positive stock; the quantities sold are positive                        *)
NextConcurrent ==
    \/ \E u \in Usernames, pw \in Passwords : login(u, pw)
    \/ \E n \in Names, pc \in PriceCategoryArgs, s \in {k \in StockArgs : k > 0} :
          add_product(n, pc[1], pc[2], s)
    \/ \E t \in Callers, n \in Names, q \in {k \in QuantityArgs : k > 0} :
          sale_product_check(t, n, q)
    \/ \E t \in Callers : sale_product_decrement(t)
    \/ \E t \in Callers : sale_product_save_inventory(t)
    \/ \E t \in Callers : sale_product_sale_id(t)
    \/ \E t \in Callers : sale_product_append(t)
    \/ \E t \in Callers : sale_product_return(t)

SpecConcurrent == Init /\ [][NextConcurrent]_vars

(* The calls of the forecast: login and predict *)
NextPredict ==
    \/ \E u \in Usernames, pw \in Passwords : login(u, pw)
    \/ \E n \in Names, k \in 1..MaxPeriods : predict_sales(n, k)

SpecPredict == InitPredict /\ [][NextPredict]_vars

-----------------------------------------------------------------------------
(* Properties *)

Mutations == {"add", "update", "delete"}
Succeeded == {"added successfully", "updated successfully", "deleted successfully"}

(* A step of the named handler, with any arguments *)
Adds == /\ last'.op = "add"
        /\ \E p \in Names, pc \in PriceCategoryArgs, k \in StockArgs :
              add_product(p, pc[1], pc[2], k)
Updates == /\ last'.op = "update"
           /\ \E p \in Names, pc \in PriceCategoryArgs, k \in StockArgs :
                 update_product(p, pc[1], pc[2], k)
Deletes == /\ last'.op = "delete"
           /\ \E p \in Names : delete_product(p)
Sells == /\ last'.op = "sell"
         /\ \E p \in Names, q \in QuantityArgs : sale_product(p, q)
Reads ==
    \/ last'.op = "view" /\ view_inventory
    \/ last'.op = "search" /\ \E c \in SearchArgs : search_products_by_category(c)
    \/ last'.op = "lowStock" /\ \E t \in ThresholdArgs : low_stock_alerts(t)
    \/ last'.op = "sort" /\ \E by \in SortByArgs, order \in SortOrderArgs :
                                sort_inventory(by, order)
    \/ last'.op = "export" /\ export_inventory
    \/ last'.op = "export_pdf" /\ export_inventory_pdf
    \/ last'.op = "viewTransactions" /\ view_transactions
    \/ last'.op = "predict" /\ \E p \in Names, k \in PeriodArgs : predict_sales(p, k)

IsPrefix(a, b) == Len(a) <= Len(b) /\ \A i \in 1..Len(a) : a[i] = b[i]

(* C1: in every reachable state every product in the store has stock >= 0. *)
(* Violated: add_product and update_product store a negative stock         *)
(* argument as it is.                                                      *)
C1_StockNeverNegative ==
    \A n \in DOMAIN inventory : inventory[n].Stock >= 0

(* C2: sell(p, q) by a logged-in principal with p in the store and q       *)
(* greater than p's stock returns "Insufficient stock" and leaves the      *)
(* inventory and the sales ledger as they were.                            *)
C2_OversellRejected ==
    [][\A p \in Names, q \in QuantityArgs :
          (/\ last'.op = "sell"
           /\ is_logged_in
           /\ p \in DOMAIN inventory
           /\ q > inventory[p].Stock
           /\ sale_product(p, q))
          => (/\ last'.result = "Insufficient stock"
              /\ inventory' = inventory
              /\ sales' = sales)]_vars

C2_Witness ==
    /\ last.op = "sell"
    /\ last.result = "Insufficient stock"
    /\ "Widget" \in DOMAIN inventory
    /\ inventory["Widget"].Stock = 2

(* C3: a sell(p, q) that returns its confirmation leaves the sales ledger  *)
(* one record longer, the stock of p exactly q lower and the audit log of  *)
(* the same length.                                                        *)
C3_SaleEffect ==
    [][\A p \in Names, q \in QuantityArgs :
          (last'.result = "Sold" /\ sale_product(p, q))
          => (/\ Len(sales') = Len(sales) + 1
              /\ inventory'[p].Stock = inventory[p].Stock - q
              /\ Len(transactions') = Len(transactions))]_vars

C3_Witness ==
    /\ last.op = "sell"
    /\ last.result = "Sold"
    /\ Len(sales) = 2
    /\ Len(transactions) = 1

(* C4: an add, update or delete that returns its success message leaves    *)
(* the audit log one entry longer, and the id of the last entry is the     *)
(* length of the log before the call plus 1.                               *)
C4_MutationLogged ==
    [][(last'.result \in Succeeded /\ (Adds \/ Updates \/ Deletes))
          => (/\ Len(transactions') = Len(transactions) + 1
              /\ transactions'[Len(transactions')][1] = Len(transactions) + 1)]_vars

C4_Witness ==
    /\ last.op = "delete"
    /\ last.result = "deleted successfully"
    /\ Len(transactions) = 2

(* C5: with nobody logged in, every operation other than login and logout  *)
(* returns its "Please login ..." message; with a non-admin principal      *)
(* logged in, add, update and delete return "Admin access required".       *)
AuthRequired ==
    {"Please login to perform this action", "Please login to view the inventory",
     "Please login to search products", "Please login to view low stock alerts",
     "Please login to sort the inventory", "Please login to export the inventory",
     "Please login to view transactions"}
Guarded ==
    {"add", "update", "delete", "view", "search", "lowStock", "sort", "export",
     "export_pdf", "viewTransactions", "sell", "predict"}

C5_Guards ==
    [][/\ (~is_logged_in /\ (Adds \/ Updates \/ Deletes \/ Sells \/ Reads))
            => (last'.op \in Guarded /\ last'.result \in AuthRequired)
       /\ (is_logged_in /\ user_role # "admin" /\ (Adds \/ Updates \/ Deletes))
            => (last'.op \in Mutations /\ last'.result = "Admin access required")]_vars

C5_Witness ==
    /\ last.op = "delete"
    /\ last.result = "Admin access required"
    /\ logged_in_user = "user"
    /\ "Widget" \in DOMAIN inventory

C5_WitnessNoSession ==
    /\ last.op = "predict"
    /\ last.result \in AuthRequired
    /\ logged_in_user = None

(* C6: for every product in the store, its stock is the stock given by the *)
(* most recent successful add or update of it minus the quantities of the  *)
(* successful sales of it since.  Violated when a CSV write raises: the    *)
(* in-memory change made before the write stays.                           *)
C6_StockIsSetMinusSold ==
    \A p \in DOMAIN inventory :
        /\ hist[p].set # << >>
        /\ inventory[p].Stock = hist[p].set[1] - hist[p].sold

(* C7: the i-th entry of the audit log has id i, and every step leaves the *)
(* entries already written in place and unchanged.                         *)
C7_AuditLogAppendOnly ==
    /\ [](\A i \in 1..Len(transactions) : transactions[i][1] = i)
    /\ [][IsPrefix(transactions, transactions')]_vars

C7_Witness ==
    /\ Len(transactions) = 2
    /\ transactions[1][2] = "Add"
    /\ transactions[2][2] = "Update"
    /\ last.op = "sell"

(* C8: the i-th record of the sales ledger has id i, so no two records     *)
(* share an id.                                                            *)
C8_SaleIdsSequential ==
    /\ \A i \in 1..Len(sales) : sales[i][1] = i
    /\ \A i, j \in 1..Len(sales) : i # j => sales[i][1] # sales[j][1]

C8_Witness ==
    /\ Len(sales) = 2
    /\ last.op = "sell"
    /\ last.result = "Sold"

(* C9: every record appended to the sales ledger has a quantity that is    *)
(* positive and at most the stock the product had before the sale; a sell  *)
(* with quantity <= 0 appends nothing.  Violated: sale_product checks only *)
(* Stock < quantity, so a quantity of 0 or less is sold and recorded.      *)
C9_SaleQuantityPositive ==
    [][\A p \in Names, q \in QuantityArgs :
          (sales' # sales /\ sale_product(p, q))
          => (/\ q > 0
              /\ q <= inventory[p].Stock
              /\ sales'[Len(sales')][3] = q)]_vars

(* C10: a call of add, update, delete or sell in which a CSV write raises  *)
(* leaves the inventory, the audit log and the sales ledger as they were.  *)
(* Violated: each handler changes the in-memory collection first and       *)
(* writes afterwards, with nothing to undo the change.                     *)
C10_FailedWriteAllOrNothing ==
    [][(last'.result = PersistenceError /\ (Adds \/ Updates \/ Deletes \/ Sells))
          => (/\ inventory' = inventory
              /\ transactions' = transactions
              /\ sales' = sales)]_vars

(* C11: the store after any sequence of add/update/delete calls made by an *)
(* admin session from an empty store is a function of the call sequence    *)
(* alone: it is the store obtained by replaying the calls, one by one, on  *)
(* an empty store (add inserts an absent name, update replaces a present   *)
(* one, delete removes a present one), whatever the session did between    *)
(* the calls and whichever CSV writes raised.                              *)
ApplyCall(store, call) ==
    LET name == call[2]
        present == \E r \in store : r.name = name
        row == [name |-> name, price |-> call[3], category |-> call[4], stock |-> call[5]]
    IN CASE call[1] = "add" -> IF present THEN store ELSE store \cup {row}
         [] call[1] = "update" ->
               IF present THEN {r \in store : r.name # name} \cup {row} ELSE store
         [] call[1] = "delete" -> {r \in store : r.name # name}

RECURSIVE ReplayCalls(_)
ReplayCalls(calls) ==
    IF calls = << >> THEN {}
    ELSE ApplyCall(ReplayCalls(SubSeq(calls, 1, Len(calls) - 1)), calls[Len(calls)])

StoreOf(inv) ==
    {[name |-> n, price |-> inv[n].Price, category |-> inv[n].Category,
      stock |-> inv[n].Stock] : n \in DOMAIN inv}

C11_StoreIsFunctionOfCalls == StoreOf(inventory) = ReplayCalls(replay.calls)

C11_Witness ==
    /\ Len(replay.calls) = 3
    /\ replay.calls[1][1] = "add"
    /\ replay.calls[2][1] = "delete"
    /\ replay.calls[3][1] = "add"
    /\ DOMAIN inventory = {"Widget"}
    /\ inventory["Widget"].Price # replay.calls[1][3]

(* C12: a view that immediately follows an add(name, price, category,      *)
(* stock) returns a table with a row for that name holding exactly the     *)
(* price, category and stock that were passed to add.                      *)
C12_AddThenView ==
    [][(/\ last'.op = "view"
        /\ last.op = "add"
        /\ last.result = "added successfully"
        /\ view_inventory)
       => /\ last'.result = "DataFrame"
          /\ \E row \in last'.data :
                /\ row.Product_Name = last.data[1]
                /\ row.Price = last.data[2]
                /\ row.Category = last.data[3]
                /\ row.Stock = last.data[4]
          /\ \A row \in last'.data :
                row.Product_Name = last.data[1]
                    => row = [Product_Name |-> last.data[1], Price |-> last.data[2],
                              Category |-> last.data[3], Stock |-> last.data[4]]]_vars

(* The step of C12: the view returned right after the add *)
C12_Witness ==
    /\ last.op = "view"
    /\ last.result = "DataFrame"
    /\ Len(transactions) = 1
    /\ transactions[1][2] = "Add"
    /\ [Product_Name |-> "Widget", Price |-> 2, Category |-> "Toys", Stock |-> -1]
           \in last.data

(* C13: in an admin session add returns the duplicate-product error        *)
(* exactly when the name is already in the store, and update and delete    *)
(* return the product-not-found error exactly when it is not; in any       *)
(* logged-in session sell returns product-not-found when the name is not   *)
(* in the store.                                                           *)
C13_DuplicateAndNotFound ==
    [][\A p \in Names :
        /\ (/\ last'.op = "add"
            /\ is_admin
            /\ \E pc \in PriceCategoryArgs, k \in StockArgs :
                  add_product(p, pc[1], pc[2], k))
           => (last'.result = "Product already exists" <=> p \in DOMAIN inventory)
        /\ (/\ last'.op = "update"
            /\ is_admin
            /\ \E pc \in PriceCategoryArgs, k \in StockArgs :
                  update_product(p, pc[1], pc[2], k))
           => (last'.result = "Product not found" <=> p \notin DOMAIN inventory)
        /\ (last'.op = "delete" /\ is_admin /\ delete_product(p))
           => (last'.result = "Product not found" <=> p \notin DOMAIN inventory)
        /\ (/\ last'.op = "sell"
            /\ is_logged_in
            /\ p \notin DOMAIN inventory
            /\ \E q \in QuantityArgs : sale_product(p, q))
           => last'.result = "Product not found"]_vars

(* A delete of a name that an earlier delete had removed *)
C13_Witness ==
    /\ last.op = "delete"
    /\ last.result = "Product not found"
    /\ Len(transactions) = 2
    /\ transactions[2][2] = "Delete"

(* C14: a delete leaves every sales record and every audit entry that was  *)
(* there before it in place and unchanged, those naming the deleted        *)
(* product included; and whatever the operation, the sales ledger before   *)
(* it is a prefix of the sales ledger after it.                            *)
C14_DeleteKeepsHistory ==
    [][/\ IsPrefix(sales, sales')
       /\ Deletes => /\ sales' = sales
                     /\ sales_csv' = sales_csv
                     /\ \A i \in 1..Len(transactions) :
                           /\ i <= Len(transactions')
                           /\ transactions'[i] = transactions[i]]_vars

(* A product with a sale and an audit entry to its name has been deleted *)
C14_Witness ==
    /\ last.op = "delete"
    /\ last.result = "deleted successfully"
    /\ "Widget" \notin DOMAIN inventory
    /\ \E i \in 1..Len(sales) : sales[i][2] = "Widget"
    /\ transactions[1][3] = "Widget"

(* C15: a predict made in a logged-in session for a product that has no    *)
(* sales record returns the no-sales-history error as its result; it does  *)
(* not end in an unhandled exception.                                      *)
C15_NoSalesHistoryReturned ==
    [][\A p \in Names :
        (/\ last'.op = "predict"
         /\ is_logged_in
         /\ \A i \in DOMAIN sales : sales[i][2] # p
         /\ \E k \in PeriodArgs : predict_sales(p, k))
        => /\ last'.result # ValueError
           /\ last'.result = "No sales history"]_vars

(* C16: the entry that an add, update or delete appends to the audit log   *)
(* holds the action, the product name, the principal logged in when the    *)
(* action ran, and as quantity the stock argument for Add and Update and 0 *)
(* for Delete; no entry of the log has an empty principal.                 *)
Entry(action, product_name, quantity) ==
    /\ Len(transactions') = Len(transactions) + 1
    /\ LET e == transactions'[Len(transactions')]
       IN /\ e[2] = action
          /\ e[3] = product_name
          /\ e[4] = quantity
          /\ e[5] = logged_in_user

C16_AuditEntryFields ==
    [][/\ \A i \in 1..Len(transactions') : transactions'[i][5] # None
       /\ \A p \in Names, k \in StockArgs :
            /\ (/\ last'.op = "add"
                /\ transactions' # transactions
                /\ \E pc \in PriceCategoryArgs : add_product(p, pc[1], pc[2], k))
               => Entry("Add", p, k)
            /\ (/\ last'.op = "update"
                /\ transactions' # transactions
                /\ \E pc \in PriceCategoryArgs : update_product(p, pc[1], pc[2], k))
               => Entry("Update", p, k)
            /\ (/\ last'.op = "delete"
                /\ transactions' # transactions
                /\ delete_product(p))
               => Entry("Delete", p, 0)]_vars

(* An add with stock 2 and a delete have been logged *)
C16_Witness ==
    /\ Len(transactions) = 2
    /\ transactions[1] = <<1, "Add", "Widget", 2, "harsh", 0>>
    /\ transactions[2] = <<2, "Delete", "Widget", 0, "harsh", 0>>

(* C20: an operation whose result is an error message (no session, admin   *)
(* required, duplicate product, product not found, insufficient stock,     *)
(* invalid credentials) leaves the inventory, the audit log, the sales     *)
(* ledger and the session as they were; in particular a failed login       *)
(* neither logs the present principal out nor changes it.                  *)
ErrorResults ==
    {"Please login to perform this action", "Please login to view the inventory",
     "Please login to search products", "Please login to use voice search",
     "Please login to view low stock alerts", "Please login to export the inventory",
     "Please login to sort the inventory", "Please login to view transactions",
     "Admin access required", "Product already exists", "Product not found",
     "Insufficient stock", "Invalid credentials"}

C20_ErrorsChangeNothing ==
    [][last'.result \in ErrorResults
       => UNCHANGED <<inventory, transactions, sales, logged_in_user, user_role,
                      inventory_csv, transactions_csv, sales_csv>>]_vars

(* A login with wrong credentials made while the admin is logged in and the *)
(* store, the log and the ledger are non-empty                              *)
C20_Witness ==
    /\ last.op = "login"
    /\ last.result = "Invalid credentials"
    /\ logged_in_user = "harsh"
    /\ user_role = "admin"
    /\ "Widget" \in DOMAIN inventory
    /\ Len(transactions) > 0
    /\ Len(sales) > 0

(* C19: the line fitted to the monthly totals is the least-squares line    *)
(* (its residuals sum to zero, weighted by the time index as well), the    *)
(* projections are made for the indices last+1 .. last+periods and lie on  *)
(* that line; for the monthly history 10, 0, 20 at indices 0, 1, 2 the     *)
(* slope is positive (it is 5) and the value at index 3 (it is 20) exceeds *)
(* the value of the line at index 2.                                       *)
Less(a, b) == a[1] * b[2] < b[1] * a[2]
Equal(a, b) == a[1] * b[2] = b[1] * a[2]
RECURSIVE GCD(_, _)
GCD(m, n) == IF n = 0 THEN m ELSE GCD(n, m % n)
Abs(m) == IF m < 0 THEN -m ELSE m
Reduced(a) == LET g == GCD(Abs(a[1]), a[2]) IN <<a[1] \div g, a[2] \div g>>
Plus(a, b) == Reduced(<<a[1] * b[2] + b[1] * a[2], a[2] * b[2]>>)
Times(k, a) == <<k * a[1], a[2]>>
OnLine(model, t) == Plus(model.intercept, Times(t, model.coef))

RECURSIVE SumFractions(_)
SumFractions(q) == IF q = << >> THEN <<0, 1>> ELSE Plus(q[1], SumFractions(Tail(q)))

Residual(model, y, i) == Plus(<<y[i], 1>>, Times(-1, OnLine(model, i - 1)))

C19_ForecastOnLeastSquaresLine ==
    (last.op = "predict" /\ last.result = "sales_prediction.png")
    => LET y == last.data.y
           n == Len(y)
           model == last.data.model
           periods == last.data.periods
       IN /\ model.coef[2] > 0 /\ model.intercept[2] > 0
          /\ Equal(SumFractions([i \in 1..n |-> Residual(model, y, i)]), <<0, 1>>)
          /\ Equal(SumFractions([i \in 1..n |-> Times(i - 1, Residual(model, y, i))]),
                   <<0, 1>>)
          /\ n = 1 => Equal(model.coef, <<0, 1>>)
          /\ Len(last.data.future_time) = periods
          /\ Len(last.data.future_sales) = periods
          /\ \A i \in 1..periods :
                /\ last.data.future_time[i] = (n - 1) + i
                /\ Equal(last.data.future_sales[i], OnLine(model, (n - 1) + i))
          /\ y = <<10, 0, 20>>
                => /\ Less(<<0, 1>>, model.coef)
                   /\ Equal(model.coef, <<5, 1>>)
                   /\ Equal(last.data.future_sales[1], <<20, 1>>)
                   /\ Less(OnLine(model, 2), last.data.future_sales[1])

(* The forecast of two months made from the history 10, 0, 20 *)
C19_Witness ==
    /\ last.op = "predict"
    /\ last.result = "sales_prediction.png"
    /\ last.data.y = <<10, 0, 20>>
    /\ last.data.periods = 2
    /\ Len(sales) = 3

(* C18: after every successful add, update, delete or sell the file of     *)
(* each kind the operation changed holds the records of the collection in  *)
(* memory, so that a load made at that point gives the state in memory:    *)
(* inventory and audit log after add, update and delete, inventory and     *)
(* sales ledger after sell.                                                *)
C18_LoadReproducesMemory ==
    /\ (last.op \in {"add", "update", "delete"} /\ last.result \in Succeeded)
       => /\ load_inventory(inventory_csv) = inventory
          /\ load_transactions(transactions_csv) = transactions
    /\ (last.op = "sell" /\ last.result = "Sold")
       => /\ load_inventory(inventory_csv) = inventory
          /\ load_sales(sales_csv) = sales

(* C17: sells are atomic with respect to each other: with a positive stock *)
(* and positive quantities, two sells of one product never take more than  *)
(* the stock between them (the stock does not fall below zero), and no two *)
(* records of the sales ledger carry the same id.                          *)
C17_SellsAtomic ==
    /\ \A n \in DOMAIN inventory : inventory[n].Stock >= 0
    /\ \A i, j \in 1..Len(sales) : i # j => sales[i][1] # sales[j][1]

====
